---- MODULE Spec2Model ----
(***************************************************************************)
(* Model of gspotty: cmd/gspotty/main.go (credential check, flag parsing,  *)
(* command dispatch) and scripts/play (the one-word "play <query>"         *)
(* wrapper around the binary).                                             *)
(*                                                                         *)
(* One run of the binary is a sequence of steps of main(); the calls into  *)
(* the packages cli, menu and profile are recorded in `calls`, the lines   *)
(* written to the standard streams in `out`.  The wrapper script is a      *)
(* second, outer sequence of steps that launches the binary and inspects   *)
(* its exit status.                                                        *)
(***************************************************************************)
EXTENDS Naturals, Sequences, FiniteSets

VARIABLES
    launcher,      \* "direct": the binary is invoked by the user; "play": by scripts/play
    env,           \* [SPOTIFY_ID, SPOTIFY_SECRET]: the environment of the run
    argvStatus,    \* what flag.Parse makes of the command line: "ok", "bad", "help"
    args,          \* the flag values the command line carries
    flags,         \* the flag variables of main (searchType, searchQuery, ...)
    parsed,        \* TRUE once flag.Parse has returned
    pc,            \* position of main
    out,           \* lines printed by main.go, in order
    calls,         \* calls made by main into cli / menu / profile, in order
    exitKind,      \* "running", "os.Exit" (hard exit) or "return" (main returned)
    exitCode,      \* exit status of the binary, meaningful once exitKind # "running"
    sh,            \* position of scripts/play ("none" when launcher = "direct")
    shArgs,        \* positional parameters of scripts/play
    binaryExists,  \* whether $SCRIPT_DIR/../gspotty is a regular file
    fileKind,      \* what that file is: "none", "gspotty", "unstartable", "script"
    lastStatus,    \* $? of scripts/play after a command of play:28 in which main did not run
    shOut,         \* lines echoed by scripts/play
    shExit         \* exit status of scripts/play, meaningful once sh = "done"

vars == <<launcher, env, argvStatus, args, flags, parsed, pc, out, calls,
          exitKind, exitCode, sh, shArgs, binaryExists, fileKind,
          lastStatus, shOut, shExit>>

gVars == <<env, argvStatus, args, flags, parsed, pc, out, calls, exitKind, exitCode>>
shVars == <<sh, shArgs, binaryExists, fileKind, lastStatus, shOut, shExit>>

----------------------------------------------------------------------------
(* Bounds and input sets *)

MaxLimit == 1
MaxWords == 2

DefaultLimit == 5

EnvValues == {"", "id"}
Types     == {"track", "album", "playlist", "foo", ""}
Queries   == {"", "Bohemian Rhapsody"}
Artists   == {"", "Queen"}
Limits    == {DefaultLimit} \cup (1..MaxLimit)
UserIDs   == {"", "spotify"}
Words     == {"", "Queen"}

\* Marks a parameter a search function does not take (artist, for album
\* and playlist searches) and the unused fields of the other call records.
NoArg == "<none>"

----------------------------------------------------------------------------
(* Flag definitions, main.go:49-74 *)

FlagDefaults ==
    [searchType   |-> "track",
     searchQuery  |-> "",
     artistName   |-> "",
     limit        |-> DefaultLimit,
     showDetails  |-> FALSE,
     interactive  |-> FALSE,
     returnToMenu |-> FALSE,
     keepPlaying  |-> FALSE,
     autoPlay     |-> FALSE,
     stopPlayback |-> FALSE,
     userID       |-> ""]

ArgSpace ==
    [searchType   : Types,
     searchQuery  : Queries,
     artistName   : Artists,
     limit        : Limits,
     showDetails  : BOOLEAN,
     interactive  : BOOLEAN,
     returnToMenu : BOOLEAN,
     keepPlaying  : BOOLEAN,
     autoPlay     : BOOLEAN,
     stopPlayback : BOOLEAN,
     userID       : UserIDs]

----------------------------------------------------------------------------
(* Output *)

Stdout(s) == [fd |-> "stdout", text |-> s]
Stderr(s) == [fd |-> "stderr", text |-> s]

\* flag.Usage, main.go:77-117.  The text is fixed; its first line stands for it.
Usage == << Stderr("Usage: gspotty [options]") >>

Banner == "================================================================="

MissingIDLine     == "Missing SPOTIFY_ID environment variable"
MissingSecretLine == "Missing SPOTIFY_SECRET environment variable"

\* The lines checkEnvironmentVariables prints, main.go:20-39.
CredentialReport(clientID, clientSecret) ==
    << Stdout(Banner),
       Stdout("ERROR: Spotify API credentials not properly configured"),
       Stdout(Banner) >>
    \o (IF clientID = "" THEN << Stdout(MissingIDLine) >> ELSE << >>)
    \o (IF clientSecret = "" THEN << Stdout(MissingSecretLine) >> ELSE << >>)
    \o << Stdout("\nTo set up your credentials:"),
          Stdout("1. Go to https://developer.spotify.com/dashboard/"),
          Stdout("2. Log in and create a new app"),
          Stdout("3. Set the redirect URI to http://localhost:8888/callback in your app settings"),
          Stdout("4. Set these environment variables with your credentials:"),
          Stdout("   export SPOTIFY_ID=your_client_id"),
          Stdout("   export SPOTIFY_SECRET=your_client_secret"),
          Stdout(Banner) >>

InvalidTypeLine(t) ==
    "Error: invalid search type '" \o t \o "'. Must be one of: track, album, playlist"

MissingQueryLine == "Error: missing search query"

MenuErrorLine == "Error running interactive menu: err"

\* Lines the flag package writes when flag.Parse rejects the command line.
FlagErrorLine == "flag provided but not defined"

----------------------------------------------------------------------------
(* Calls into the other packages *)

Call(fn, q, a, l, d, k, p, u) ==
    [fn |-> fn, query |-> q, artist |-> a, limit |-> l, details |-> d,
     keepPlaying |-> k, autoPlay |-> p, user |-> u]

SimpleCall(fn) == Call(fn, NoArg, NoArg, 0, FALSE, FALSE, FALSE, NoArg)

SearchFns == {"SearchTracks", "SearchAlbums", "SearchPlaylists",
              "SearchTracksWithMenu", "SearchAlbumsWithMenu",
              "SearchPlaylistsWithMenu"}

----------------------------------------------------------------------------
(* Decisions of main *)

\* Mutant: the two tests joined by && instead of ||.
CredentialsMissingBoth(clientID, clientSecret) ==
    clientID = "" /\ clientSecret = ""

\* main.go:19
CredentialsMissing(clientID, clientSecret) ==
    clientID = "" \/ clientSecret = ""

\* main.go:149-153
validTypes == {"track", "album", "playlist"}

\* Mutant: the type is only checked for being non-empty.
IsValidTypeNonEmpty(t) == t # ""

\* main.go:155, the lookup validTypes[*searchType]
IsValidType(t) == t \in validTypes

\* Mutant: the query is compared with a blank instead of the empty string.
QueryMissingBlank(q) == q = " "

\* main.go:162
QueryMissing(q) == q = ""

\* Mutant: the interactive test placed before the stop test.
RouteMenuFirst(f) ==
    IF f.userID # "" THEN "profile"
    ELSE IF f.interactive THEN "menu"
    ELSE IF f.stopPlayback THEN "stop"
    ELSE IF ~IsValidType(f.searchType) THEN "invalidType"
    ELSE IF QueryMissing(f.searchQuery) THEN "missingQuery"
    ELSE "search"

\* Mutant: the stop test placed before the profile test.
RouteStopFirst(f) ==
    IF f.stopPlayback THEN "stop"
    ELSE IF f.userID # "" THEN "profile"
    ELSE IF f.interactive THEN "menu"
    ELSE IF ~IsValidType(f.searchType) THEN "invalidType"
    ELSE IF QueryMissing(f.searchQuery) THEN "missingQuery"
    ELSE "search"

\* The chain of tests of main after the client is obtained, main.go:126-166:
\* each test that succeeds ends in a return, so the first one that holds
\* decides what the run does.
Route(f) ==
    IF f.userID # "" THEN "profile"
    ELSE IF f.stopPlayback THEN "stop"
    ELSE IF f.interactive THEN "menu"
    ELSE IF ~IsValidType(f.searchType) THEN "invalidType"
    ELSE IF QueryMissing(f.searchQuery) THEN "missingQuery"
    ELSE "search"

\* Mutant: the two arms of the returnToMenu test exchanged.
SearchFnSwapped(t, r) ==
    IF r
    THEN CASE t = "track"    -> "SearchTracks"
           [] t = "album"    -> "SearchAlbums"
           [] t = "playlist" -> "SearchPlaylists"
           [] OTHER          -> NoArg
    ELSE CASE t = "track"    -> "SearchTracksWithMenu"
           [] t = "album"    -> "SearchAlbumsWithMenu"
           [] t = "playlist" -> "SearchPlaylistsWithMenu"
           [] OTHER          -> NoArg

\* main.go:169-187: the function the two switch statements select; a type
\* that matches no case selects none (the switches have no default).
SearchFn(t, r) ==
    IF r
    THEN CASE t = "track"    -> "SearchTracksWithMenu"
           [] t = "album"    -> "SearchAlbumsWithMenu"
           [] t = "playlist" -> "SearchPlaylistsWithMenu"
           [] OTHER          -> NoArg
    ELSE CASE t = "track"    -> "SearchTracks"
           [] t = "album"    -> "SearchAlbums"
           [] t = "playlist" -> "SearchPlaylists"
           [] OTHER          -> NoArg

\* main.go:172-185: the argument list of the selected call; artistName is an
\* argument of the two track searches only.
SearchCalls(f) ==
    LET fn == SearchFn(f.searchType, f.returnToMenu)
    IN  IF fn = NoArg THEN << >>
        ELSE << Call(fn, f.searchQuery,
                     IF f.searchType = "track" THEN f.artistName ELSE NoArg,
                     f.limit, f.showDetails, f.keepPlaying, f.autoPlay, NoArg) >>

----------------------------------------------------------------------------
(* scripts/play helpers *)

\* "$*": the positional parameters joined by single spaces, play:28.
RECURSIVE JoinArgs(_)
JoinArgs(ws) ==
    IF Len(ws) = 0 THEN ""
    ELSE IF Len(ws) = 1 THEN ws[1]
    ELSE ws[1] \o " " \o JoinArgs(Tail(ws))

\* The command line of play:28: -t track -q "$*" -p -k
PlayCommandLine(ws) ==
    [FlagDefaults EXCEPT !.searchType = "track",
                         !.searchQuery = JoinArgs(ws),
                         !.autoPlay = TRUE,
                         !.keepPlaying = TRUE]

WordSeqs == UNION { [1..n -> Words] : n \in 0..MaxWords }

\* What a regular file at $SCRIPT_DIR/../gspotty can be when play:28 runs it:
\* the binary built from main.go, a file the shell cannot start, or a file
\* the shell runs as a shell script.
FileKinds == {"gspotty", "unstartable", "script"}

----------------------------------------------------------------------------
(* Initial states *)

InitDirect ==
    /\ launcher = "direct"
    /\ env \in [SPOTIFY_ID : EnvValues, SPOTIFY_SECRET : EnvValues]
    /\ argvStatus \in {"ok", "bad", "help"}
    /\ args \in ArgSpace
    /\ pc = "start"
    /\ sh = "none"
    /\ shArgs = << >>
    /\ binaryExists = TRUE
    /\ fileKind = "gspotty"

InitPlay ==
    /\ launcher = "play"
    /\ env \in [SPOTIFY_ID : EnvValues, SPOTIFY_SECRET : EnvValues]
    /\ argvStatus = "ok"
    /\ args = FlagDefaults
    /\ pc = "notrun"
    /\ sh = "start"
    /\ shArgs \in WordSeqs
    /\ binaryExists \in BOOLEAN
    /\ fileKind \in (IF binaryExists THEN FileKinds ELSE {"none"})

Init ==
    /\ (InitDirect \/ InitPlay)
    /\ flags = FlagDefaults
    /\ parsed = FALSE
    /\ out = << >>
    /\ calls = << >>
    /\ exitKind = "running"
    /\ exitCode = 0
    /\ shOut = << >>
    /\ shExit = 0
    /\ lastStatus = 0

----------------------------------------------------------------------------
(* Steps of main *)

\* os.Exit(code)
HardExit(code) ==
    /\ exitKind' = "os.Exit"
    /\ exitCode' = code
    /\ pc' = "done"

\* return from main: the Go runtime exits with status 0
ReturnFromMain ==
    /\ exitKind' = "return"
    /\ exitCode' = 0
    /\ pc' = "done"

\* main.go:15-42, called at main.go:46
checkEnvironmentVariables ==
    /\ pc = "start"
    /\ LET clientID     == env.SPOTIFY_ID
           clientSecret == env.SPOTIFY_SECRET
       IN  IF CredentialsMissing(clientID, clientSecret)
           THEN /\ out' = out \o CredentialReport(clientID, clientSecret)
                /\ HardExit(1)
           ELSE /\ pc' = "parse"
                /\ UNCHANGED <<out, exitKind, exitCode>>
    /\ UNCHANGED <<launcher, env, argvStatus, args, flags, parsed, calls>>
    /\ UNCHANGED shVars

\* main.go:119, flag.Parse() on flag.CommandLine (ExitOnError): a rejected
\* command line prints the error and the usage and exits with status 2; -h
\* prints the usage and exits with status 0, or 2 with Go releases before 1.15.
ParseFlags ==
    /\ pc = "parse"
    /\ \/ /\ argvStatus = "ok"
          /\ flags' = args
          /\ parsed' = TRUE
          /\ pc' = "client"
          /\ UNCHANGED <<out, exitKind, exitCode>>
       \/ /\ argvStatus = "bad"
          /\ out' = out \o << Stderr(FlagErrorLine) >> \o Usage
          /\ HardExit(2)
          /\ UNCHANGED <<flags, parsed>>
       \/ /\ argvStatus = "help"
          /\ out' = out \o Usage
          /\ \E code \in {0, 2} : HardExit(code)
          /\ UNCHANGED <<flags, parsed>>
    /\ UNCHANGED <<launcher, env, argvStatus, args, calls>>
    /\ UNCHANGED shVars

\* Mutant: the client is obtained only when the run is going to use it.
GetSpotifyClientLazy ==
    /\ pc = "client"
    /\ calls' = IF flags.userID # "" THEN calls
                ELSE calls \o << SimpleCall("GetSpotifyClient") >>
    /\ pc' = "dispatch"
    /\ UNCHANGED <<launcher, env, argvStatus, args, flags, parsed, out,
                   exitKind, exitCode>>
    /\ UNCHANGED shVars

\* main.go:122-123
GetSpotifyClient ==
    /\ pc = "client"
    /\ calls' = calls \o << SimpleCall("GetSpotifyClient") >>
    /\ pc' = "dispatch"
    /\ UNCHANGED <<launcher, env, argvStatus, args, flags, parsed, out,
                   exitKind, exitCode>>
    /\ UNCHANGED shVars

\* main.go:126-129
ProfileLookup ==
    /\ pc = "dispatch"
    /\ Route(flags) = "profile"
    /\ calls' = calls \o
         << Call("GetProfile", NoArg, NoArg, 0, FALSE, FALSE, FALSE, flags.userID) >>
    /\ ReturnFromMain
    /\ UNCHANGED <<launcher, env, argvStatus, args, flags, parsed, out>>
    /\ UNCHANGED shVars

\* main.go:132-135
StopPlayback ==
    /\ pc = "dispatch"
    /\ Route(flags) = "stop"
    /\ calls' = calls \o << SimpleCall("StopCurrentlyPlaying") >>
    /\ ReturnFromMain
    /\ UNCHANGED <<launcher, env, argvStatus, args, flags, parsed, out>>
    /\ UNCHANGED shVars

\* The calls of main.go:140-142
MenuCalls(f) ==
    << SimpleCall("NewInteractiveMenu"),
       Call("SetKeepPlayingFlag", NoArg, NoArg, 0, FALSE, f.keepPlaying, FALSE, NoArg),
       SimpleCall("Run") >>

\* Mutant: an error of the menu ends the process with os.Exit(1).
InteractiveModeFatal ==
    /\ pc = "dispatch"
    /\ Route(flags) = "menu"
    /\ calls' = calls \o MenuCalls(flags)
    /\ \/ /\ out' = out
          /\ ReturnFromMain
       \/ /\ out' = out \o << Stderr(MenuErrorLine) >>
          /\ HardExit(1)
    /\ UNCHANGED <<launcher, env, argvStatus, args, flags, parsed>>
    /\ UNCHANGED shVars

\* main.go:138-146; interactiveMenu.Run() returns nil or an error
InteractiveMode ==
    /\ pc = "dispatch"
    /\ Route(flags) = "menu"
    /\ calls' = calls \o MenuCalls(flags)
    /\ \/ out' = out
       \/ out' = out \o << Stderr(MenuErrorLine) >>
    /\ ReturnFromMain
    /\ UNCHANGED <<launcher, env, argvStatus, args, flags, parsed>>
    /\ UNCHANGED shVars

\* main.go:155-159
InvalidType ==
    /\ pc = "dispatch"
    /\ Route(flags) = "invalidType"
    /\ out' = out \o << Stderr(InvalidTypeLine(flags.searchType)) >> \o Usage
    /\ ReturnFromMain
    /\ UNCHANGED <<launcher, env, argvStatus, args, flags, parsed, calls>>
    /\ UNCHANGED shVars

\* main.go:162-166
MissingQuery ==
    /\ pc = "dispatch"
    /\ Route(flags) = "missingQuery"
    /\ out' = out \o << Stderr(MissingQueryLine) >> \o Usage
    /\ ReturnFromMain
    /\ UNCHANGED <<launcher, env, argvStatus, args, flags, parsed, calls>>
    /\ UNCHANGED shVars

\* main.go:169-188
Search ==
    /\ pc = "dispatch"
    /\ Route(flags) = "search"
    /\ calls' = calls \o SearchCalls(flags)
    /\ ReturnFromMain
    /\ UNCHANGED <<launcher, env, argvStatus, args, flags, parsed, out>>
    /\ UNCHANGED shVars

----------------------------------------------------------------------------
(* Steps of scripts/play *)

\* play:4-8
PlayCheckArgs ==
    /\ sh = "start"
    /\ IF Len(shArgs) = 0
       THEN /\ shOut' = shOut \o << "Usage: play <search query>",
                                   "Example: play Bohemian Rhapsody" >>
            /\ shExit' = 1
            /\ sh' = "done"
       ELSE /\ sh' = "checkbin"
            /\ UNCHANGED <<shOut, shExit>>
    /\ UNCHANGED <<launcher, shArgs, binaryExists, fileKind, lastStatus>>
    /\ UNCHANGED gVars

\* play:11-21
PlayCheckBinary ==
    /\ sh = "checkbin"
    /\ IF ~binaryExists
       THEN /\ shOut' = shOut \o
                 << "Error: gspotty binary not found in ../gspotty",
                    "Please make sure you have built the application using 'make build'" >>
            /\ shExit' = 1
            /\ sh' = "done"
       ELSE /\ sh' = "run"
            /\ UNCHANGED <<shOut, shExit>>
    /\ UNCHANGED <<launcher, shArgs, binaryExists, fileKind, lastStatus>>
    /\ UNCHANGED gVars

\* Exit statuses the shell gives a command it could not start: 126 when the
\* file cannot be executed (no execute permission, a binary of another
\* format), 127 when executing it finds nothing to run (missing interpreter
\* or loader, file removed after the test of play:17).
LaunchFailureStatuses == {126, 127}

\* The largest exit status a command can leave in $?.
MaxStatus == 255

\* Exit statuses of a file that the shell runs as a shell script: that of
\* its last command, any status; 0 for an empty file.
ScriptStatuses == 0..MaxStatus

\* play:28.  The test of play:17 only establishes a regular file.  When the
\* file is the gspotty binary, main is started with the command line of the
\* script.  When the shell cannot start it, the command fails.  When the file
\* has execute permission but is no binary (a text or an empty file), the
\* shell runs it as a shell script and $? is the status of that script.  In
\* the last two cases main never runs.
PlayRunGspotty ==
    /\ sh = "run"
    /\ pc = "notrun"
    /\ \/ /\ fileKind = "gspotty"
          /\ args' = PlayCommandLine(shArgs)
          /\ pc' = "start"
          /\ sh' = "wait"
          /\ UNCHANGED lastStatus
       \/ /\ fileKind = "unstartable"
          /\ sh' = "ended"
          /\ lastStatus' \in LaunchFailureStatuses
          /\ UNCHANGED <<args, pc>>
       \/ /\ fileKind = "script"
          /\ sh' = "ended"
          /\ lastStatus' \in ScriptStatuses
          /\ UNCHANGED <<args, pc>>
    /\ UNCHANGED <<launcher, env, argvStatus, flags, parsed, out, calls,
                   exitKind, exitCode>>
    /\ UNCHANGED <<shArgs, binaryExists, fileKind, shOut, shExit>>

\* $? at play:31: the exit status of the command of play:28
LastStatus == IF sh = "ended" THEN lastStatus ELSE exitCode

\* play:31-36, run once the command of play:28 has ended
PlayReport ==
    /\ \/ sh = "wait" /\ pc = "done"
       \/ sh = "ended"
    /\ IF LastStatus = 0
       THEN /\ shOut' = shOut \o << "Playing: " \o JoinArgs(shArgs) >>
            /\ shExit' = 0
       ELSE /\ shOut' = shOut \o << "Error: Failed to play music" >>
            /\ shExit' = 1
    /\ sh' = "done"
    /\ UNCHANGED <<launcher, shArgs, binaryExists, fileKind, lastStatus>>
    /\ UNCHANGED gVars

----------------------------------------------------------------------------
(* Specification *)

Next ==
    \/ checkEnvironmentVariables
    \/ ParseFlags
    \/ GetSpotifyClient
    \/ ProfileLookup
    \/ StopPlayback
    \/ InteractiveMode
    \/ InvalidType
    \/ MissingQuery
    \/ Search
    \/ PlayCheckArgs
    \/ PlayCheckBinary
    \/ PlayRunGspotty
    \/ PlayReport

Spec == Init /\ [][Next]_vars

TypeOK ==
    /\ launcher \in {"direct", "play"}
    /\ pc \in {"notrun", "start", "parse", "client", "dispatch", "done"}
    /\ sh \in {"none", "start", "checkbin", "run", "wait", "ended", "done"}
    /\ fileKind \in {"none"} \cup FileKinds
    /\ binaryExists <=> fileKind # "none"
    /\ lastStatus \in 0..MaxStatus
    /\ exitKind \in {"running", "os.Exit", "return"}
    /\ exitCode \in {0, 1, 2}
    /\ parsed \in BOOLEAN

----------------------------------------------------------------------------
(* Vocabulary of the properties *)

\* Number of calls made so far to the functions named in fns.
CallsTo(fns) == Cardinality({ i \in 1..Len(calls) : calls[i].fn \in fns })

Printed(line) == \E i \in 1..Len(out) : out[i] = line

UsagePrinted == \E i \in 1..Len(out) : out[i] = Stderr("Usage: gspotty [options]")

MenuFns == {"NewInteractiveMenu", "SetKeepPlayingFlag", "Run"}

CredentialsAbsent == env.SPOTIFY_ID = "" \/ env.SPOTIFY_SECRET = ""

\* The run got past flag.Parse with none of -u, -s, -i set.
ReachedValidation ==
    /\ parsed
    /\ args.userID = ""
    /\ ~args.stopPlayback
    /\ ~args.interactive

TypeInvalid == args.searchType \notin {"track", "album", "playlist"}

QueryEmpty == args.searchQuery = ""

----------------------------------------------------------------------------
(* C1 *)

\* C1: when SPOTIFY_ID or SPOTIFY_SECRET is empty, the run ends in the
\* credential check with os.Exit(1), having printed the "Missing ..." line
\* of exactly the absent variables, with the flags not parsed and no call
\* made to the client, profile, stop, menu or search functions.
C1_MissingCredentialsExit ==
    (CredentialsAbsent /\ pc \notin {"notrun", "start"}) =>
        /\ pc = "done"
        /\ exitKind = "os.Exit"
        /\ exitCode = 1
        /\ Printed(Stdout(MissingIDLine)) <=> (env.SPOTIFY_ID = "")
        /\ Printed(Stdout(MissingSecretLine)) <=> (env.SPOTIFY_SECRET = "")
        /\ ~parsed
        /\ flags = FlagDefaults
        /\ calls = << >>
        /\ ~UsagePrinted

C1_Witness ==
    /\ pc = "done"
    /\ env.SPOTIFY_ID = ""
    /\ env.SPOTIFY_SECRET # ""
    /\ exitCode = 1
    /\ exitKind = "os.Exit"
    /\ ~Printed(Stdout(MissingSecretLine))
    /\ Printed(Stdout(MissingIDLine))

----------------------------------------------------------------------------
(* C2 *)

\* C2: in a run that reaches validation with a -t value outside
\* {track, album, playlist}, whatever -q and the other flags are, no search
\* function is ever called and the run ends having printed the error that
\* names the given type and the usage text.
C2_InvalidTypeNoSearch ==
    (ReachedValidation /\ TypeInvalid) =>
        /\ CallsTo(SearchFns) = 0
        /\ pc = "done" =>
             /\ Printed(Stderr(InvalidTypeLine(args.searchType)))
             /\ UsagePrinted

C2_Witness ==
    /\ pc = "done"
    /\ ReachedValidation
    /\ args.searchType = "foo"
    /\ args.searchQuery # ""
    /\ Printed(Stderr("Error: invalid search type 'foo'. Must be one of: track, album, playlist"))

----------------------------------------------------------------------------
(* C3 *)

\* C3: in a run that reaches validation with a valid type and an empty
\* query, no search function is called and the run ends having printed the
\* missing-query error and the usage text; when the type is invalid as well,
\* only the invalid-type error is printed.
C3_EmptyQueryNoSearch ==
    (ReachedValidation /\ QueryEmpty) =>
        /\ CallsTo(SearchFns) = 0
        /\ (pc = "done" /\ ~TypeInvalid) =>
             /\ Printed(Stderr(MissingQueryLine))
             /\ UsagePrinted
             /\ Len(out) = 2
        /\ (pc = "done" /\ TypeInvalid) =>
             /\ ~Printed(Stderr(MissingQueryLine))
             /\ Printed(Stderr(InvalidTypeLine(args.searchType)))

C3_Witness ==
    /\ pc = "done"
    /\ ReachedValidation
    /\ args.searchType = "album"
    /\ QueryEmpty
    /\ Printed(Stderr(MissingQueryLine))

----------------------------------------------------------------------------
(* C4 *)

\* C4: when validation fails (invalid type or empty query) the process ends
\* with a non-zero exit status, reached by returning from main (no os.Exit).
C4_ValidationFailureNonZeroExit ==
    (pc = "done" /\ ReachedValidation /\ (TypeInvalid \/ QueryEmpty)) =>
        /\ exitKind = "return"
        /\ exitCode # 0

----------------------------------------------------------------------------
(* C5 *)

\* C5: when -s is given and -u is empty, StopCurrentlyPlaying is called
\* exactly once and main returns; no search function is called, the menu is
\* not started and nothing is printed about -t or -q, whatever the other
\* flags are.
C5_StopOnly ==
    (parsed /\ args.stopPlayback /\ args.userID = "") =>
        /\ CallsTo(SearchFns) = 0
        /\ CallsTo(MenuFns) = 0
        /\ out = << >>
        /\ pc = "done" =>
             /\ CallsTo({"StopCurrentlyPlaying"}) = 1
             /\ exitKind = "return"

C5_Witness ==
    /\ pc = "done"
    /\ args.stopPlayback
    /\ args.interactive
    /\ args.userID = ""
    /\ args.searchType = "foo"
    /\ QueryEmpty
    /\ CallsTo({"StopCurrentlyPlaying"}) = 1

----------------------------------------------------------------------------
(* C6 *)

\* The actions the run has performed, read off the calls it made.
Performed ==
    (IF CallsTo({"GetProfile"}) > 0 THEN {"profile"} ELSE {})
    \cup (IF CallsTo({"StopCurrentlyPlaying"}) > 0 THEN {"stop"} ELSE {})
    \cup (IF CallsTo(MenuFns) > 0 THEN {"menu"} ELSE {})
    \cup (IF CallsTo(SearchFns) > 0 THEN {"search"} ELSE {})

\* The action the precedence -u > -s > -i > search selects.
Selected ==
    IF args.userID # "" THEN "profile"
    ELSE IF args.stopPlayback THEN "stop"
    ELSE IF args.interactive THEN "menu"
    ELSE "search"

\* C6: a run performs at most one of profile lookup, stop, menu and search,
\* and only the one the precedence -u > -s > -i > search selects; when -u,
\* -s or -i is set that action is performed and no validation error about
\* -t or -q is printed.
C6_Precedence ==
    parsed =>
        /\ Performed \subseteq {Selected}
        /\ (pc = "done" /\ Selected # "search") =>
             /\ Performed = {Selected}
             /\ ~Printed(Stderr(InvalidTypeLine(args.searchType)))
             /\ ~Printed(Stderr(MissingQueryLine))
             /\ ~UsagePrinted

C6_Witness ==
    /\ pc = "done"
    /\ args.userID # ""
    /\ args.stopPlayback
    /\ args.interactive
    /\ TypeInvalid
    /\ QueryEmpty
    /\ Performed = {"profile"}

----------------------------------------------------------------------------
(* C7 *)

\* The search function the pair (type, -r) selects.
ExpectedSearchFn ==
    CASE args.searchType = "track" /\ args.returnToMenu     -> "SearchTracksWithMenu"
      [] args.searchType = "track" /\ ~args.returnToMenu    -> "SearchTracks"
      [] args.searchType = "album" /\ args.returnToMenu     -> "SearchAlbumsWithMenu"
      [] args.searchType = "album" /\ ~args.returnToMenu    -> "SearchAlbums"
      [] args.searchType = "playlist" /\ args.returnToMenu  -> "SearchPlaylistsWithMenu"
      [] args.searchType = "playlist" /\ ~args.returnToMenu -> "SearchPlaylists"

\* C7: when validation passes, the run calls exactly one search function
\* exactly once, the one selected by (type, -r), with the query, limit,
\* details, keep-playing and auto-play values of the command line; the
\* artist filter is an argument for type track only.
C7_SearchDispatch ==
    (pc = "done" /\ ReachedValidation /\ ~TypeInvalid /\ ~QueryEmpty) =>
        /\ CallsTo(SearchFns) = 1
        /\ Len(calls) = 2
        /\ calls[2] = [fn          |-> ExpectedSearchFn,
                       query       |-> args.searchQuery,
                       artist      |-> IF args.searchType = "track"
                                       THEN args.artistName ELSE NoArg,
                       limit       |-> args.limit,
                       details     |-> args.showDetails,
                       keepPlaying |-> args.keepPlaying,
                       autoPlay    |-> args.autoPlay,
                       user        |-> NoArg]

C7_Witness ==
    /\ pc = "done"
    /\ ReachedValidation
    /\ args.searchType = "playlist"
    /\ args.returnToMenu
    /\ args.artistName = "Queen"
    /\ args.limit = 1
    /\ CallsTo({"SearchPlaylistsWithMenu"}) = 1

----------------------------------------------------------------------------
(* C8 *)

\* The wrapped run failed: the command of play:28 ended with a non-zero
\* status without main running (it could not be started, or the file was
\* not the binary), or main ended with a hard exit or a validation error.
WrappedRunFailed ==
    \/ /\ Len(shArgs) > 0
       /\ binaryExists
       /\ fileKind # "gspotty"
       /\ lastStatus # 0
    \/ /\ pc = "done"
       /\ \/ exitKind = "os.Exit"
          \/ Printed(Stderr(MissingQueryLine))
          \/ Printed(Stderr(InvalidTypeLine(args.searchType)))

\* C8: scripts/play exits with status 1 when the binary is missing or when
\* the wrapped run fails, and prints "Playing: <query>" only when the track
\* search with auto-play was actually started.
C8_PlayReportsFailure ==
    (launcher = "play" /\ sh = "done") =>
        /\ (Len(shArgs) > 0 /\ ~binaryExists) => shExit = 1
        /\ WrappedRunFailed => shExit = 1
        /\ (\E i \in 1..Len(shOut) : shOut[i] = "Playing: " \o JoinArgs(shArgs)) =>
               CallsTo({"SearchTracks"}) = 1

----------------------------------------------------------------------------
(* C9 *)

\* C9: the process ends by os.Exit with status 1 exactly on the
\* missing-credentials path; every run whose flags were parsed ends by
\* returning from main (status 0), also when the menu reports an error.
C9_HardExitOnlyForCredentials ==
    pc = "done" =>
        /\ (exitKind = "os.Exit" /\ exitCode = 1) <=> CredentialsAbsent
        /\ parsed => (exitKind = "return" /\ exitCode = 0)

C9_Witness ==
    /\ pc = "done"
    /\ parsed
    /\ Printed(Stderr(MenuErrorLine))
    /\ exitKind = "return"

----------------------------------------------------------------------------
(* C10 *)

\* C10: once the flags are parsed, GetSpotifyClient is called exactly once,
\* as the first call of the run and before anything is printed or
\* dispatched; this includes runs that end in a validation error and -u
\* runs.
C10_ClientBeforeDispatch ==
    /\ pc = "client" => (calls = << >> /\ out = << >>)
    /\ pc = "dispatch" =>
         (calls = << SimpleCall("GetSpotifyClient") >> /\ out = << >>)
    /\ (pc = "done" /\ parsed) =>
         /\ CallsTo({"GetSpotifyClient"}) = 1
         /\ calls[1].fn = "GetSpotifyClient"

C10_Witness ==
    /\ pc = "done"
    /\ ReachedValidation
    /\ TypeInvalid
    /\ UsagePrinted
    /\ CallsTo({"GetSpotifyClient"}) = 1
    /\ CallsTo(SearchFns) = 0

====
